---------------------------- MODULE Spec2Model ----------------------------
(***************************************************************************)
(* Model of the SoniEffect conversion pipeline                             *)
(* (src/lib/tools/video_to_audio_converter.py and its caller src/app.py):  *)
(* upload staging, the path check, the supervision of the transcoding      *)
(* engine, the progress parser and the deletion entry point.               *)
(*                                                                         *)
(* A file name is a sequence of one-character strings, a path a sequence   *)
(* of names (its components, always absolute), so that the string prefix   *)
(* test of the code and containment by components are different things.    *)
(* The filesystem holds no symbolic links: the program creates none.       *)
(***************************************************************************)
EXTENDS Integers, Sequences, FiniteSets, TLC

(***************************************************************************)
(* Bounds of the model.                                                    *)
(***************************************************************************)
\* Largest duration, in whole seconds, a Duration line carries.
MaxT == 2
\* Most diagnostic lines the engine writes during one conversion.
MaxLines == 3
\* Most calls of delete_file in one behaviour.
MaxDeletes == 2
\* Number of requests of the concurrent specification.
NumProcs == 2
\* Longest uploaded file name of the enumerated names.
MaxNameLen == 3

Procs == 1..NumProcs

\* Python's None where a path, a name or an exit status is expected.
None == << <<"None">> >>
NoName == <<"None">>
NoStatus == -1

Min(a, b) == IF a <= b THEN a ELSE b

(***************************************************************************)
(* Names and paths.                                                        *)
(***************************************************************************)
DotDot == <<".", ".">>

\* The configured roots (dir_config) and their neighbours on the disk.
VIDEO_DIR == << <<"v">> >>
AUDIO_DIR == << <<"a">> >>
\* A directory beside the input root whose name starts with the root's name.
SIBLING_DIR == << <<"v", "x">> >>
\* A directory that has nothing to do with either root (/etc).
ETC_DIR == << <<"e">> >>

Dirs == {<<>>, VIDEO_DIR, AUDIO_DIR, SIBLING_DIR, ETC_DIR}

\* Path.resolve() of an absolute path without symbolic links: "." and empty
\* components vanish, ".." drops the component before it (and stays at the
\* root).
RECURSIVE ResolveFrom(_, _)
ResolveFrom(done, rest) ==
    IF rest = <<>> THEN done
    ELSE LET c == Head(rest) IN
         IF c = <<>> \/ c = <<".">> THEN ResolveFrom(done, Tail(rest))
         ELSE IF c = DotDot
              THEN ResolveFrom(IF done = <<>> THEN <<>>
                               ELSE SubSeq(done, 1, Len(done) - 1), Tail(rest))
              ELSE ResolveFrom(Append(done, c), Tail(rest))

Resolve(path) == ResolveFrom(<<>>, path)

\* str(path): every component behind a "/" (the root is "/").
RECURSIVE StrOf(_)
StrOf(path) ==
    IF path = <<>> THEN <<>>
    ELSE <<"/">> \o Head(path) \o StrOf(Tail(path))

Str(path) == IF path = <<>> THEN <<"/">> ELSE StrOf(path)

\* str.startswith
StartsWith(s, prefix) ==
    Len(prefix) <= Len(s) /\ SubSeq(s, 1, Len(prefix)) = prefix

\* Containment component by component: root is path or one of its ancestors.
IsUnder(path, root) ==
    Len(root) <= Len(path) /\ SubSeq(path, 1, Len(root)) = root

\* PurePath.name of a relative file name given by its components: the last
\* component that is neither empty nor "."; "" when there is none.
RECURSIVE NameOf(_)
NameOf(comps) ==
    IF comps = <<>> THEN <<>>
    ELSE LET c == comps[Len(comps)] IN
         IF c = <<>> \/ c = <<".">>
         THEN NameOf(SubSeq(comps, 1, Len(comps) - 1))
         ELSE c

\* Index of the last "." of a name, 0 when it has none (str.rfind + 1).
RECURSIVE LastDot(_, _)
LastDot(name, i) ==
    IF i = 0 THEN 0
    ELSE IF name[i] = "." THEN i ELSE LastDot(name, i - 1)

\* PurePath.stem: the name without its last suffix; a leading or a trailing
\* dot starts no suffix.
StemOf(name) ==
    LET i == LastDot(name, Len(name)) IN
    IF 1 < i /\ i < Len(name) THEN SubSeq(name, 1, i - 1) ELSE name

(***************************************************************************)
(* Sanitizers.                                                             *)
(***************************************************************************)
\* The characters of [a-zA-Z0-9_-] that occur in the model.
WordChars == {"a", "b", "c", "m", "_", "-"}

\* SanitizeUpload with the whitelist of line 32, which has no ".".
SanitizeUploadNoDot(name) ==
    [i \in 1..Len(name) |-> IF name[i] \in WordChars THEN name[i] ELSE "_"]

\* re.sub(r'[^a-zA-Z0-9._-]', '_', filename), line 15.
SanitizeUpload(name) ==
    [i \in 1..Len(name) |->
        IF name[i] \in WordChars \cup {"."} THEN name[i] ELSE "_"]

\* SanitizeStem with the whitelist of line 15, which keeps ".".
SanitizeStemKeepsDot(stem) ==
    [i \in 1..Len(stem) |->
        IF stem[i] \in WordChars \cup {"."} THEN stem[i] ELSE "_"]

\* re.sub(r'[^a-zA-Z0-9_-]', '_', stem), line 32.
SanitizeStem(stem) ==
    [i \in 1..Len(stem) |-> IF stem[i] \in WordChars THEN stem[i] ELSE "_"]

\* f"SoniEffect_Converted_{stem}.{out_format}": the fixed prefix and the
\* format are single tokens.
OutputName(stem, fmt) == <<"SoniEffect_Converted_">> \o stem \o <<".", fmt>>

(***************************************************************************)
(* Inputs.                                                                 *)
(***************************************************************************)
\* Uploaded file names: "a.m", "a b.c.m" (a character outside the whitelist
\* and a dot inside the stem) and "..", which names a directory.
UploadNames == { <<"a", ".", "m">>, <<"a", " ", "b", ".", "c", ".", "m">>, DotDot }

\* Every name of at most MaxNameLen characters over a letter, the dot, the
\* blank and the slash.
NameChars == {"a", ".", " ", "/"}
NameStrings == UNION { [1..n -> NameChars] : n \in 0..MaxNameLen }

Formats == {"mp3", "flac"}

\* The formats of lines 53-64: "wav" stands for every other format.
AllFormats == {"mp3", "m4a", "flac", "wav"}

\* The default of line 24 and another bitrate.
Bitrates == {"192k", "320k"}

\* random.randint(100, 999), line 31: both ends of the range.
Rand3 == {100, 999}

\* progress_callback: absent, one that returns, one that raises.
Callbacks == {"none", "ok", "throws"}

\* The artifact an earlier conversion of "a.m" to mp3 left in the output root.
OldArtifact == OutputName(<<"a">>, "mp3")

\* Paths convert_video_to_audio is called with directly: a file of the
\* sibling directory, a traversal out of the input root, a missing file.
DirectPaths ==
    { SIBLING_DIR \o << <<"a", ".", "m">> >>,
      VIDEO_DIR \o << DotDot, <<"e">>, OldArtifact >>,
      VIDEO_DIR \o << <<"c">> >> }

\* File names delete_file is called with, by components: the bare name of an
\* artifact, the traversal "../../e/<name>", "..", "" and a missing name.
DeleteArgs ==
    { << OldArtifact >>,
      << DotDot, DotDot, <<"e">>, OldArtifact >>,
      << DotDot >>,
      << >>,
      << <<"c">> >> }

\* A diagnostic line, by what the two patterns find in it: the seconds of
\* the first Duration: match and of the first time= match, NoMatch for a
\* pattern that does not match.  Times are whole seconds, for which the
\* floating-point arithmetic of lines 91-99 is exact.
NoMatch == -1

DurLine(d) == [dur |-> d, time |-> NoMatch]
TimeLine(t) == [dur |-> NoMatch, time |-> t]
Noise == [dur |-> NoMatch, time |-> NoMatch]

Lines ==
    {DurLine(d) : d \in 0..MaxT} \cup {TimeLine(t) : t \in 0..MaxT} \cup {Noise}

\* One line of each shape, for the specifications that are about the files.
FewLines == {DurLine(1), TimeLine(1), Noise}

(***************************************************************************)
(* State.                                                                  *)
(***************************************************************************)
VARIABLES
    fs,      \* the files on disk: path |-> who wrote it (0: there from the start)
    pc,      \* where each request stands
    call,    \* the arguments and locals of each convert_video_to_audio call
    proc,    \* the engine process of each call and its handle
    stream,  \* the diagnostic lines each call has read
    events,  \* the percentages each call has passed to its callback
    ret,     \* what each call returned or raised
    del,     \* the last delete_file call
    ndel     \* the number of delete_file calls

vars == <<fs, pc, call, proc, stream, events, ret, del, ndel>>

NoCall ==
    [filename |-> NoName, input_path |-> None, input_file |-> None,
     out_path |-> None, rand_3 |-> 0, out_format |-> "", callback |-> "none",
     duration |-> 0, bitrate |-> "", has_logo |-> FALSE, cmd |-> <<>>]

NoProc == [state |-> "none", returncode |-> NoStatus, waits |-> 0, stderr_open |-> FALSE]

\* The answer of the /api/convert handler: none yet.
NoResponse == [kind |-> "none"]

NoRet == [value |-> None, error |-> "none", response |-> NoResponse]

NoDelete ==
    [filename |-> None, target |-> None, existed |-> FALSE, result |-> FALSE,
     raised |-> FALSE, removed |-> {}]

Init ==
    /\ fs = (SIBLING_DIR \o << <<"a", ".", "m">> >> :> 0)
            @@ (ETC_DIR \o << OldArtifact >> :> 0)
            @@ (AUDIO_DIR \o << OldArtifact >> :> 0)
    /\ pc = [p \in Procs |-> "idle"]
    /\ call = [p \in Procs |-> NoCall]
    /\ proc = [p \in Procs |-> NoProc]
    /\ stream = [p \in Procs |-> <<>>]
    /\ events = [p \in Procs |-> <<>>]
    /\ ret = [p \in Procs |-> NoRet]
    /\ del = NoDelete
    /\ ndel = 0

\* Path.exists(): a file or a directory.
Exists(files, path) == path \in DOMAIN files \/ path \in Dirs

Remove(files, path) == [f \in DOMAIN files \ {path} |-> files[f]]

WriteFile(files, path, who) ==
    [f \in DOMAIN files \cup {path} |-> IF f = path THEN who ELSE files[f]]

(***************************************************************************)
(* save_uploaded_file, lines 14-19.                                        *)
(***************************************************************************)
\* open(target_path, "wb") creates or truncates the file, and fails on a
\* directory; the copy may fail half way (disk full), leaving the file.
save_uploaded_file(p, name, copied) ==
    /\ pc[p] = "idle"
    /\ LET safe_name == SanitizeUpload(name)
           target_path == VIDEO_DIR \o <<safe_name>>
           onDisk == Resolve(target_path)
       IN IF onDisk \in Dirs
          THEN /\ pc' = [pc EXCEPT ![p] = "raised"]
               /\ ret' = [ret EXCEPT ![p].error = "IOError"]
               /\ call' = [call EXCEPT ![p].filename = name]
               /\ fs' = fs
          ELSE /\ fs' = WriteFile(fs, onDisk, p)
               /\ IF copied
                  THEN /\ pc' = [pc EXCEPT ![p] = "staged"]
                       /\ call' = [call EXCEPT ![p].filename = name,
                                               ![p].input_path = target_path]
                       /\ ret' = ret
                  ELSE /\ pc' = [pc EXCEPT ![p] = "raised"]
                       /\ ret' = [ret EXCEPT ![p].error = "IOError"]
                       /\ call' = [call EXCEPT ![p].filename = name]
    /\ UNCHANGED <<proc, stream, events, del, ndel>>

(***************************************************************************)
(* convert_video_to_audio, lines 21-106.                                   *)
(***************************************************************************)
\* Line 28: the input is accepted when it exists and the string of its
\* resolved path starts with the string of the resolved input root.
InputAccepted(files, input_file) ==
    /\ Exists(files, input_file)
    /\ StartsWith(Str(input_file), Str(Resolve(VIDEO_DIR)))

\* CodecArgs with the else branch of line 64 always choosing flac.
CodecArgsAlwaysFlac(out_format, bitrate) ==
    IF out_format = "mp3"
    THEN <<"-c:a", "libmp3lame", "-b:a", bitrate,
           "-compression_level", "0",
           "-id3v2_version", "3",
           "-metadata:s:v", "title=Album cover",
           "-metadata:s:v", "comment=Cover (front)">>
    ELSE IF out_format = "m4a"
    THEN <<"-c:a", "aac", "-b:a", bitrate, "-cutoff", "20000">>
    ELSE <<"-c:a", "flac">>

\* Lines 53-64: the codec arguments.
CodecArgs(out_format, bitrate) ==
    IF out_format = "mp3"
    THEN <<"-c:a", "libmp3lame", "-b:a", bitrate,
           "-compression_level", "0",
           "-id3v2_version", "3",
           "-metadata:s:v", "title=Album cover",
           "-metadata:s:v", "comment=Cover (front)">>
    ELSE IF out_format = "m4a"
    THEN <<"-c:a", "aac", "-b:a", bitrate, "-cutoff", "20000">>
    ELSE <<"-c:a", IF out_format = "flac" THEN "flac" ELSE "pcm_s16le">>

\* Lines 38-73: the argument list of the engine.  The input path, the logo
\* path, the output path and the title with rand_3 stand as placeholders.
BuildCmd(out_format, bitrate, has_logo) ==
    <<"ffmpeg", "-y", "-hide_banner", "-loglevel", "info",
      "-hwaccel", "auto",
      "-thread_queue_size", "4096",
      "-i", "<input_file>">>
    \o (IF has_logo THEN <<"-i", "<LOGO_PATH>">> ELSE <<>>)
    \o <<"-map", "0:a:0">>
    \o (IF has_logo
        THEN <<"-map", "1:v:0", "-disposition:v:0", "attached_pic">> ELSE <<>>)
    \o CodecArgs(out_format, bitrate)
    \o <<"-metadata", "title=SoniEffect Audio #<rand_3>",
         "-metadata", "artist=SoniEffect",
         "-metadata", "album=SoniEffect Conversions",
         "-movflags", "+faststart",
         "-threads", "0",
         "<out_path>">>

\* ConvertStartWith with the engine spawned before the path check of line 28.
ConvertStartSpawnsFirst(p, input_path, out_format, bitrate, has_logo, callback, rand_3) ==
    /\ pc[p] \in {"idle", "staged"}
    /\ LET input_file == Resolve(input_path) IN
       IF ~InputAccepted(fs, input_file)
       THEN /\ pc' = [pc EXCEPT ![p] = "raised"]
            /\ ret' = [ret EXCEPT ![p].error = "InvalidInput"]
            /\ call' = [call EXCEPT ![p].input_path = input_path,
                                    ![p].input_file = input_file]
            /\ proc' = [proc EXCEPT ![p] =
                           [state |-> "running", returncode |-> NoStatus,
                            waits |-> 0, stderr_open |-> TRUE]]
       ELSE LET stem == SanitizeStem(StemOf(input_file[Len(input_file)]))
                out_path == AUDIO_DIR \o <<OutputName(stem, out_format)>>
            IN /\ pc' = [pc EXCEPT ![p] = "reading"]
               /\ call' = [call EXCEPT ![p].input_path = input_path,
                                       ![p].input_file = input_file,
                                       ![p].out_path = out_path,
                                       ![p].rand_3 = rand_3,
                                       ![p].out_format = out_format,
                                       ![p].callback = callback,
                                       ![p].duration = 0,
                                       ![p].bitrate = bitrate,
                                       ![p].has_logo = has_logo,
                                       ![p].cmd =
                                           BuildCmd(out_format, bitrate, has_logo)]
               /\ proc' = [proc EXCEPT ![p] =
                              [state |-> "running", returncode |-> NoStatus,
                               waits |-> 0, stderr_open |-> TRUE]]
               /\ ret' = ret
    /\ UNCHANGED <<fs, stream, events, del, ndel>>

\* Lines 27-78: the path check, the output name and the spawn of the engine.
\* ValueError("Security Violation: Invalid Input Path") is the InvalidInput
\* error.
ConvertStartWith(p, input_path, out_format, bitrate, has_logo, callback, rand_3) ==
    /\ pc[p] \in {"idle", "staged"}
    /\ LET input_file == Resolve(input_path) IN
       IF ~InputAccepted(fs, input_file)
       THEN /\ pc' = [pc EXCEPT ![p] = "raised"]
            /\ ret' = [ret EXCEPT ![p].error = "InvalidInput"]
            /\ call' = [call EXCEPT ![p].input_path = input_path,
                                    ![p].input_file = input_file]
            /\ proc' = proc
       ELSE LET stem == SanitizeStem(StemOf(input_file[Len(input_file)]))
                out_path == AUDIO_DIR \o <<OutputName(stem, out_format)>>
            IN /\ pc' = [pc EXCEPT ![p] = "reading"]
               /\ call' = [call EXCEPT ![p].input_path = input_path,
                                       ![p].input_file = input_file,
                                       ![p].out_path = out_path,
                                       ![p].rand_3 = rand_3,
                                       ![p].out_format = out_format,
                                       ![p].callback = callback,
                                       ![p].duration = 0,
                                       ![p].bitrate = bitrate,
                                       ![p].has_logo = has_logo,
                                       ![p].cmd =
                                           BuildCmd(out_format, bitrate, has_logo)]
               /\ proc' = [proc EXCEPT ![p] =
                              [state |-> "running", returncode |-> NoStatus,
                               waits |-> 0, stderr_open |-> TRUE]]
               /\ ret' = ret
    /\ UNCHANGED <<fs, stream, events, del, ndel>>

\* The call with the default bitrate (line 24) and the logo file in place.
ConvertStart(p, input_path, out_format, callback, rand_3) ==
    ConvertStartWith(p, input_path, out_format, "192k", TRUE, callback, rand_3)

\* Percent with the scaling by 100 left out.
PercentNoScale(curr, duration) == Min(curr \div duration, 100)

\* Line 99: min(int((curr / duration) * 100), 100).
Percent(curr, duration) == Min((curr * 100) \div duration, 100)

\* ParseLine reporting 0 for a time= line read before any duration is known.
ParseLineEager(duration, callback, line) ==
    IF duration <= 0
    THEN [duration |-> IF line.dur # NoMatch THEN line.dur ELSE duration,
          emitted |-> IF callback # "none" /\ line.time # NoMatch
                      THEN <<0>> ELSE <<>>]
    ELSE [duration |-> duration,
          emitted |-> IF callback # "none" /\ line.time # NoMatch
                      THEN <<Min((line.time * 100) \div duration, 100)>>
                      ELSE <<>>]

\* ParseLine with a Duration line replacing a duration already recorded.
ParseLineOverwrites(duration, callback, line) ==
    IF duration <= 0
    THEN [duration |-> IF line.dur # NoMatch THEN line.dur ELSE duration,
          emitted |-> <<>>]
    ELSE [duration |-> IF line.dur # NoMatch THEN line.dur ELSE duration,
          emitted |-> IF callback # "none" /\ line.time # NoMatch
                      THEN <<Percent(line.time, duration)>>
                      ELSE <<>>]

\* Lines 88-99 for one line: the duration afterwards and the percentages
\* passed to the callback (none or one).
ParseLine(duration, callback, line) ==
    IF duration <= 0
    THEN [duration |-> IF line.dur # NoMatch THEN line.dur ELSE duration,
          emitted |-> <<>>]
    ELSE [duration |-> duration,
          emitted |-> IF callback # "none" /\ line.time # NoMatch
                      THEN <<Percent(line.time, duration)>>
                      ELSE <<>>]

\* Lines 85-99: the engine writes a line and the loop handles it.  A callback
\* that raises ends the call there.
ReadLine(p, line) ==
    /\ pc[p] = "reading"
    /\ proc[p].state = "running"
    /\ Len(stream[p]) < MaxLines
    /\ LET r == ParseLine(call[p].duration, call[p].callback, line) IN
       /\ stream' = [stream EXCEPT ![p] = Append(@, line)]
       /\ call' = [call EXCEPT ![p].duration = r.duration]
       /\ events' = [events EXCEPT ![p] = @ \o r.emitted]
       /\ IF r.emitted # <<>> /\ call[p].callback = "throws"
          THEN /\ pc' = [pc EXCEPT ![p] = "raised"]
               /\ ret' = [ret EXCEPT ![p].error = "CallbackError"]
          ELSE UNCHANGED <<pc, ret>>
    /\ UNCHANGED <<fs, proc, del, ndel>>

\* Line 85: the engine writes bytes that are not UTF-8 and readline raises.
ReadLineFails(p) ==
    /\ pc[p] = "reading"
    /\ proc[p].state = "running"
    /\ Len(stream[p]) < MaxLines
    /\ pc' = [pc EXCEPT ![p] = "raised"]
    /\ ret' = [ret EXCEPT ![p].error = "UnicodeDecodeError"]
    /\ UNCHANGED <<fs, call, proc, stream, events, del, ndel>>

\* The engine ends: it closes its diagnostic stream and exits with a status.
\* With status 0 it has written the output file (-y overwrites); with
\* another status it may have left one behind.
EngineExit(p, status, wrote) ==
    /\ proc[p].state = "running"
    /\ status = 0 => wrote
    /\ proc' = [proc EXCEPT ![p].state = "exited", ![p].returncode = status]
    /\ fs' = IF wrote THEN WriteFile(fs, call[p].out_path, p) ELSE fs
    /\ UNCHANGED <<pc, call, stream, events, ret, del, ndel>>

\* Line 86: readline returns "" once the stream is closed.
ReadEOF(p) ==
    /\ pc[p] = "reading"
    /\ proc[p].state = "exited"
    /\ pc' = [pc EXCEPT ![p] = "waiting"]
    /\ UNCHANGED <<fs, call, proc, stream, events, ret, del, ndel>>

\* Line 101: process.wait(); its result is dropped.
Wait(p) ==
    /\ pc[p] = "waiting"
    /\ proc[p].state = "exited"
    /\ proc' = [proc EXCEPT ![p].waits = @ + 1]
    /\ pc' = [pc EXCEPT ![p] = "cleanup"]
    /\ UNCHANGED <<fs, call, stream, events, ret, del, ndel>>

\* Finish without lines 103-104: the input file is left where it is.
FinishKeepsInput(p) ==
    /\ pc[p] = "cleanup"
    /\ ret' = [ret EXCEPT ![p].value = call[p].out_path]
    /\ pc' = [pc EXCEPT ![p] = "returned"]
    /\ UNCHANGED <<fs, call, proc, stream, events, del, ndel>>

\* Finish removing the input file only after an exit with status zero.
FinishOnSuccessOnly(p) ==
    /\ pc[p] = "cleanup"
    /\ fs' = IF Exists(fs, call[p].input_file) /\ proc[p].returncode = 0
             THEN Remove(fs, call[p].input_file) ELSE fs
    /\ ret' = [ret EXCEPT ![p].value = call[p].out_path]
    /\ pc' = [pc EXCEPT ![p] = "returned"]
    /\ UNCHANGED <<call, proc, stream, events, del, ndel>>

\* Lines 103-106: the input file is removed when it is there and the output
\* path returned.
Finish(p) ==
    /\ pc[p] = "cleanup"
    /\ fs' = IF Exists(fs, call[p].input_file)
             THEN Remove(fs, call[p].input_file) ELSE fs
    /\ ret' = [ret EXCEPT ![p].value = call[p].out_path]
    /\ pc' = [pc EXCEPT ![p] = "returned"]
    /\ UNCHANGED <<call, proc, stream, events, del, ndel>>

(***************************************************************************)
(* delete_file, lines 108-117.                                             *)
(***************************************************************************)
\* Lines 110-115, the body of the try: what it returns, or that it raised.
\* unlink raises on a directory and when the system refuses (oserror).
DeleteBody(files, filename, oserror) ==
    LET safe_name == NameOf(filename)
        target == Resolve(AUDIO_DIR \o <<safe_name>>)
    IN IF Exists(files, target)
          /\ StartsWith(Str(target), Str(Resolve(AUDIO_DIR)))
       THEN IF target \in Dirs \/ oserror
            THEN [raised |-> TRUE, result |-> FALSE, files |-> files,
                  target |-> target]
            ELSE [raised |-> FALSE, result |-> TRUE,
                  files |-> Remove(files, target), target |-> target]
       ELSE [raised |-> FALSE, result |-> FALSE, files |-> files,
             target |-> target]

\* DeleteOutcome without the except clause: what the body raises goes on.
DeleteOutcomeNoExcept(files, filename, oserror) ==
    DeleteBody(files, filename, oserror)

\* Lines 109-117: the bare except turns whatever the body raised into False.
DeleteOutcome(files, filename, oserror) ==
    LET r == DeleteBody(files, filename, oserror) IN
    IF r.raised THEN [r EXCEPT !.raised = FALSE, !.result = FALSE] ELSE r

delete_file(filename, oserror) ==
    /\ ndel < MaxDeletes
    /\ LET r == DeleteOutcome(fs, filename, oserror) IN
       /\ fs' = r.files
       /\ del' = [filename |-> filename, target |-> r.target,
                  existed |-> Exists(fs, r.target), result |-> r.result,
                  raised |-> r.raised,
                  removed |-> DOMAIN fs \ DOMAIN r.files]
    /\ ndel' = ndel + 1
    /\ UNCHANGED <<pc, call, proc, stream, events, ret>>

(***************************************************************************)
(* The /api/convert handler, src/app.py lines 57-86.                       *)
(***************************************************************************)
\* server_config.py line 64: the production URL.
SERVER_URL == "https://sonieffect.onrender.com"

\* Lines 75-86: the answer to a request whose calls have returned, or the
\* answer of the except clause to one of them that raised.
HandlerRespond(p) ==
    /\ pc[p] \in {"returned", "raised"}
    /\ pc' = [pc EXCEPT ![p] = "answered"]
    /\ ret' = [ret EXCEPT ![p].response =
                  IF pc[p] = "returned"
                  THEN LET filename == ret[p].value[Len(ret[p].value)] IN
                       [kind |-> "success", filename |-> filename,
                        download_url |-> [base |-> SERVER_URL,
                                          route |-> "/download/audio/",
                                          filename |-> filename]]
                  ELSE [kind |-> "error", error |-> ret[p].error,
                        status_code |-> 500]]
    /\ UNCHANGED <<fs, call, proc, stream, events, del, ndel>>

(***************************************************************************)
(* Specifications.                                                         *)
(***************************************************************************)
\* The handler passes on the path save_uploaded_file returned; another caller
\* passes a path of its own.
PathsFor(p) == IF pc[p] = "staged" THEN {call[p].input_path} ELSE DirectPaths

\* The call of request p has returned or raised.
Ended(p) == pc[p] \in {"returned", "raised"}

\* Spec: one client and one request, with every input path, format and
\* callback and every file name for delete_file, which the client calls
\* once its request has ended.  The engine writes lines of FewLines, and
\* rand_3, which reaches the title metadata alone, is 100.
Upload1 == \E name \in UploadNames, copied \in BOOLEAN :
               save_uploaded_file(1, name, copied)

Start1 == \E path \in PathsFor(1), f \in Formats, cb \in Callbacks :
               ConvertStart(1, path, f, cb, 100)

Read1 == \E line \in FewLines : ReadLine(1, line)

Exit1 == \E status \in {0, 1}, wrote \in BOOLEAN : EngineExit(1, status, wrote)

Delete1 == Ended(1) /\ \E filename \in DeleteArgs, oserror \in BOOLEAN :
                        delete_file(filename, oserror)

Next ==
    \/ Upload1
    \/ Start1
    \/ Read1
    \/ ReadLineFails(1)
    \/ Exit1
    \/ ReadEOF(1)
    \/ Wait(1)
    \/ Finish(1)
    \/ Delete1

Spec == Init /\ [][Next]_vars

\* SpecParse: one conversion of the staged upload "a.m", with every
\* diagnostic stream of at most MaxLines lines of Lines.
UploadP == save_uploaded_file(1, <<"a", ".", "m">>, TRUE)

StartP == \E cb \in Callbacks :
              /\ pc[1] = "staged"
              /\ ConvertStart(1, call[1].input_path, "mp3", cb, 100)

ReadP == \E line \in Lines : ReadLine(1, line)

NextParse ==
    \/ UploadP
    \/ StartP
    \/ ReadP
    \/ ReadLineFails(1)
    \/ Exit1
    \/ ReadEOF(1)
    \/ Wait(1)
    \/ Finish(1)

SpecParse == Init /\ [][NextParse]_vars

\* SpecConc: NumProcs requests of the handler (save_uploaded_file, then
\* convert_video_to_audio on the staged path) in every interleaving, and
\* delete_file at any moment.
ConcNames == { <<"a", ".", "m">>, <<"b", ".", "m">> }

UploadC == \E p \in Procs, name \in ConcNames : save_uploaded_file(p, name, TRUE)

StartC == \E p \in Procs, r \in Rand3 :
              /\ pc[p] = "staged"
              /\ ConvertStart(p, call[p].input_path, "mp3", "none", r)

ReadC == \E p \in Procs : ReadLine(p, Noise)

ExitC == \E p \in Procs, status \in {0, 1} : EngineExit(p, status, status = 0)

EofC == \E p \in Procs : ReadEOF(p)

WaitC == \E p \in Procs : Wait(p)

FinishC == \E p \in Procs : Finish(p)

DeleteC == delete_file(<< OldArtifact >>, FALSE)

NextConc ==
    \/ UploadC
    \/ StartC
    \/ ReadC
    \/ ExitC
    \/ EofC
    \/ WaitC
    \/ FinishC
    \/ DeleteC

SpecConc == Init /\ [][NextConc]_vars

\* SpecApi: one request of the /api/convert handler, from the upload to the
\* answer, with every name of NameStrings and UploadNames, every format and
\* bitrate, and the logo file there or not.  The handler passes no callback.
ApiNames == NameStrings \cup UploadNames

UploadA == \E name \in ApiNames, copied \in BOOLEAN :
               save_uploaded_file(1, name, copied)

StartA == \E f \in AllFormats, b \in Bitrates, has_logo \in BOOLEAN :
              /\ pc[1] = "staged"
              /\ ConvertStartWith(1, call[1].input_path, f, b, has_logo,
                                  "none", 100)

ReadA == ReadLine(1, Noise)

ExitA == \E status \in {0, 1} : EngineExit(1, status, status = 0)

NextApi ==
    \/ UploadA
    \/ StartA
    \/ ReadA
    \/ ReadLineFails(1)
    \/ ExitA
    \/ ReadEOF(1)
    \/ Wait(1)
    \/ Finish(1)
    \/ HandlerRespond(1)

SpecApi == Init /\ [][NextApi]_vars

\* SpecLive: SpecParse with the lines of FewLines, under the assumption
\* that a running engine ends, and with the steps of the code after the
\* loop taken once they can be.
ReadL == \E line \in FewLines : ReadLine(1, line)

NextLive ==
    \/ UploadP
    \/ StartP
    \/ ReadL
    \/ ReadLineFails(1)
    \/ Exit1
    \/ ReadEOF(1)
    \/ Wait(1)
    \/ Finish(1)

SpecLive ==
    /\ Init
    /\ [][NextLive]_vars
    /\ WF_vars(Exit1)
    /\ WF_vars(ReadEOF(1))
    /\ WF_vars(Wait(1))
    /\ WF_vars(Finish(1))

(***************************************************************************)
(* Properties.                                                             *)
(***************************************************************************)
\* C1: when the engine exits with a status other than zero the call raises
\* TranscodeFailed and returns no output path; an output path is returned
\* only after an exit with status zero.
C1_NonZeroExitFails ==
    \A p \in Procs :
        /\ pc[p] = "returned" => proc[p].returncode = 0
        /\ (Ended(p) /\ proc[p].waits > 0 /\ proc[p].returncode # 0)
               => (ret[p].error = "TranscodeFailed" /\ ret[p].value = None)

\* C2: a call whose resolved input path is not contained, component by
\* component, in the resolved input root fails with InvalidInput and starts
\* no engine.
C2_OutsideRootRejected ==
    \A p \in Procs :
        (call[p].input_file # None
            /\ ~IsUnder(call[p].input_file, Resolve(VIDEO_DIR)))
        => (ret[p].error = "InvalidInput" /\ proc[p].state = "none")

\* C3: delete_file with a file name that, resolved against the output root,
\* lies outside the output root returns false and deletes nothing.
C3_TraversalDeletesNothing ==
    (ndel > 0
        /\ ~IsUnder(Resolve(AUDIO_DIR \o del.filename), Resolve(AUDIO_DIR)))
    => (del.result = FALSE /\ del.removed = {})

\* C4: when a conversion whose engine exited with status zero returns, its
\* input file is gone and the file at the returned path exists in the
\* output root.
C4_InputGoneOutputThere ==
    [][\A p \in Procs :
          (pc[p] # "returned" /\ pc'[p] = "returned" /\ proc[p].returncode = 0)
          => /\ call[p].input_file \notin DOMAIN fs'
             /\ ret'[p].value \in DOMAIN fs'
             /\ IsUnder(ret'[p].value, AUDIO_DIR)
             /\ Len(ret'[p].value) = Len(AUDIO_DIR) + 1]_vars

\* A staged upload was converted with exit status zero and the call returned.
C4_Witness ==
    /\ pc[1] = "returned"
    /\ proc[1].returncode = 0
    /\ call[1].filename # NoName
    /\ IsUnder(call[1].input_file, VIDEO_DIR)
    /\ ndel = 0

NonDecreasing(seq) == \A i \in 1..(Len(seq) - 1) : seq[i] <= seq[i + 1]

\* C5: every percentage passed to the callback is an integer of 0..100 and
\* the percentages of one conversion never decrease, whatever the order of
\* the time= values.
C5_PercentMonotone ==
    \A p \in Procs :
        /\ \A i \in 1..Len(events[p]) : events[p][i] \in 0..100
        /\ NonDecreasing(events[p])

\* C6: once the engine was spawned, a call that has returned or raised has
\* waited for the exit status exactly once and has closed the stderr stream.
C6_HandleReleased ==
    \A p \in Procs :
        (Ended(p) /\ proc[p].state # "none")
        => (proc[p].waits = 1 /\ ~proc[p].stderr_open)

\* C7: two conversions share neither their staged input file nor their
\* output file unless their random 3-digit suffixes are equal.
C7_DistinctFiles ==
    \A p, q \in Procs :
        (p # q /\ call[p].out_path # None /\ call[q].out_path # None
            /\ call[p].rand_3 # call[q].rand_3)
        => /\ call[p].input_file # call[q].input_file
           /\ call[p].out_path # call[q].out_path

NoDurationLine(seq) == \A i \in 1..Len(seq) : seq[i].dur = NoMatch

\* C8: while no line read has matched the Duration pattern the callback has
\* not been called, and a call that returns after such a stream and an exit
\* with status zero returns the output path.
C8_NoDurationNoEvents ==
    \A p \in Procs :
        NoDurationLine(stream[p])
        => /\ events[p] = <<>>
           /\ (pc[p] = "returned" /\ proc[p].returncode = 0)
                  => (ret[p].value = call[p].out_path /\ ret[p].error = "none")

\* A call with a callback returned after a stream with time= lines and no
\* Duration line.
C8_Witness ==
    /\ pc[1] = "returned"
    /\ proc[1].returncode = 0
    /\ call[1].callback = "ok"
    /\ NoDurationLine(stream[1])
    /\ \E i \in 1..Len(stream[1]) : stream[1][i].time # NoMatch

\* A Duration line with a positive duration followed by time= lines, one at
\* least, whose positions increase up to exactly that duration.
CleanStream(seq) ==
    /\ Len(seq) >= 2
    /\ seq[1].dur > 0
    /\ \A i \in 2..Len(seq) : seq[i].dur = NoMatch /\ seq[i].time # NoMatch
    /\ \A i \in 2..(Len(seq) - 1) : seq[i].time < seq[i + 1].time
    /\ seq[Len(seq)].time = seq[1].dur

\* C9: after such a stream a call with a callback has emitted one percentage
\* for every time= line, in non-decreasing order, the last being 100.
C9_CleanStreamEndsAt100 ==
    \A p \in Procs :
        (call[p].callback = "ok" /\ CleanStream(stream[p]))
        => /\ Len(events[p]) = Len(stream[p]) - 1
           /\ NonDecreasing(events[p])
           /\ events[p][Len(events[p])] = 100

\* A call returned after the stream  Duration 2, time 1, time 2.
C9_Witness ==
    /\ pc[1] = "returned"
    /\ call[1].callback = "ok"
    /\ CleanStream(stream[1])
    /\ Len(stream[1]) = 3
    /\ events[1] = <<50, 100>>

\* C10: delete_file never raises and returns a boolean, and it returns true
\* only when its target existed inside the output root and this call
\* removed it.
C10_DeleteNeverRaises ==
    ndel > 0
    => /\ ~del.raised
       /\ del.result \in BOOLEAN
       /\ del.result => /\ del.existed
                        /\ IsUnder(del.target, Resolve(AUDIO_DIR))
                        /\ del.target # Resolve(AUDIO_DIR)
                        /\ del.removed = {del.target}

\* delete_file met an error of the system while unlinking an artifact of the
\* output root, and returned false.
C10_Witness ==
    /\ ndel > 0
    /\ del.existed
    /\ ~del.result
    /\ del.target \in DOMAIN fs


\* C11: every request is answered with the success payload or an error
\* payload, and each failure reaches the caller as a structured error: a
\* staging failure as IOError, a rejected input path as InvalidInput, an
\* engine that exited with a status other than zero as TranscodeFailed.
C11_FailuresAreStructured ==
    \A p \in Procs :
        pc[p] = "answered"
        => LET r == ret[p].response IN
           /\ r.kind \in {"success", "error"}
           /\ call[p].input_path = None
                  => (r.kind = "error" /\ r.error = "IOError")
           /\ (call[p].input_file # None /\ proc[p].state = "none")
                  => (r.kind = "error" /\ r.error = "InvalidInput")
           /\ (proc[p].waits > 0 /\ proc[p].returncode # 0)
                  => (r.kind = "error" /\ r.error = "TranscodeFailed")

\* The last component of a path.
Last(path) == path[Len(path)]

\* C12: the staged name has the length of the uploaded name, holds only
\* characters of [A-Za-z0-9._-], keeps every whitelisted character of the
\* uploaded name at its position and has "_" at every other position.
C12_StagedNameSanitized ==
    \A p \in Procs :
        (call[p].filename # NoName /\ call[p].input_path # None)
        => LET whitelist == {"a", "b", "c", "m", "_", "-", "."}
               original == call[p].filename
               staged == Last(call[p].input_path)
           IN /\ Len(staged) = Len(original)
              /\ \A i \in 1..Len(original) :
                    /\ staged[i] \in whitelist
                    /\ original[i] \in whitelist => staged[i] = original[i]
                    /\ original[i] \notin whitelist => staged[i] = "_"

\* An upload was staged whose name holds a dot, a character outside the
\* whitelist before it and a whitelisted character.
C12_Witness ==
    /\ pc[1] = "staged"
    /\ \E i, j, k \in 1..Len(call[1].filename) :
          /\ i < j
          /\ call[1].filename[i] \in {" ", "/"}
          /\ call[1].filename[j] = "."
          /\ call[1].filename[k] = "a"

\* C13 as stated: the output file is SoniEffect_Converted_<S>.<format> in
\* the output root with S the stem of the input file sanitized as uploaded
\* names are, the two sanitizers agree on the stem, and the success payload
\* names that file.
C13_SameWhitelist ==
    \A p \in Procs :
        call[p].out_path # None
        => LET stem == StemOf(Last(call[p].input_file))
               name == OutputName(SanitizeUpload(stem), call[p].out_format)
           IN /\ call[p].out_path = AUDIO_DIR \o <<name>>
              /\ SanitizeStem(stem) = SanitizeUpload(stem)
              /\ (pc[p] = "answered" /\ ret[p].response.kind = "success")
                     => /\ ret[p].response.filename = name
                        /\ ret[p].response.download_url.filename = name

\* C13: the output file is SoniEffect_Converted_<S>.<format> in the output
\* root with S the stem of the input file in which every character outside
\* [A-Za-z0-9_-], the dot included, is replaced by "_"; the two sanitizers
\* agree on exactly the stems without a dot; and the success payload names
\* that file in its filename and in its download URL.
C13_OutputNamedFromStem ==
    \A p \in Procs :
        call[p].out_path # None
        => LET stem == StemOf(Last(call[p].input_file))
               S == [i \in 1..Len(stem) |->
                        IF stem[i] \in {"a", "b", "c", "m", "_", "-"}
                        THEN stem[i] ELSE "_"]
               name == <<"SoniEffect_Converted_">> \o S
                           \o <<".", call[p].out_format>>
           IN /\ call[p].out_path = AUDIO_DIR \o <<name>>
              /\ (SanitizeStem(stem) = SanitizeUpload(stem))
                     <=> (\A i \in 1..Len(stem) : stem[i] # ".")
              /\ (pc[p] = "answered" /\ ret[p].response.kind = "success")
                     => /\ ret[p].response.filename = name
                        /\ ret[p].response.download_url
                               = [base |-> SERVER_URL,
                                  route |-> "/download/audio/",
                                  filename |-> name]

\* A request was answered with success whose staged stem holds a dot.
C13_Witness ==
    /\ pc[1] = "answered"
    /\ ret[1].response.kind = "success"
    /\ \E i \in 1..Len(StemOf(Last(call[1].input_file))) :
          StemOf(Last(call[1].input_file))[i] = "."

\* The argument b follows the argument a somewhere in cmd.
HasPair(cmd, a, b) == \E i \in 1..(Len(cmd) - 1) : cmd[i] = a /\ cmd[i + 1] = b

\* The number of times the argument a stands in cmd.
Count(cmd, a) == Cardinality({ i \in 1..Len(cmd) : cmd[i] = a })

\* C14: the argument list of every engine started asks for -hwaccel auto,
\* -thread_queue_size 4096 and -map 0:a:0; names one codec, libmp3lame for
\* mp3, aac for m4a, flac for flac and pcm_s16le for any other format; and
\* holds the logo as second input, its mapping and the attached_pic
\* disposition exactly when the logo file is there.
C14_CmdArguments ==
    \A p \in Procs :
        proc[p].state # "none"
        => LET cmd == call[p].cmd
               fmt == call[p].out_format
               logo == call[p].has_logo
           IN /\ HasPair(cmd, "-hwaccel", "auto")
              /\ HasPair(cmd, "-thread_queue_size", "4096")
              /\ HasPair(cmd, "-map", "0:a:0")
              /\ Count(cmd, "-c:a") = 1
              /\ HasPair(cmd, "-c:a", CASE fmt = "mp3" -> "libmp3lame"
                                        [] fmt = "m4a" -> "aac"
                                        [] fmt = "flac" -> "flac"
                                        [] OTHER -> "pcm_s16le")
              /\ Count(cmd, "-i") = (IF logo THEN 2 ELSE 1)
              /\ logo <=> HasPair(cmd, "-i", "<LOGO_PATH>")
              /\ logo <=> HasPair(cmd, "-map", "1:v:0")
              /\ logo <=> HasPair(cmd, "-disposition:v:0", "attached_pic")

\* An engine was started for the format wav at 320k without the logo file.
C14_Witness ==
    /\ proc[1].state = "running"
    /\ call[1].out_format = "wav"
    /\ call[1].bitrate = "320k"
    /\ ~call[1].has_logo

\* Index of the first line of seq from index i on whose Duration match is
\* at least least, 0 when there is none.
RECURSIVE FirstDuration(_, _, _)
FirstDuration(seq, i, least) ==
    IF i > Len(seq) THEN 0
    ELSE IF seq[i].dur # NoMatch /\ seq[i].dur >= least THEN i
    ELSE FirstDuration(seq, i + 1, least)

\* The number of lines of seq after index k that match the time= pattern.
TimeLinesAfter(seq, k) ==
    Cardinality({ i \in (k + 1)..Len(seq) : seq[i].time # NoMatch })

\* C15 as stated: the duration recorded is that of the first line matching
\* the Duration pattern, whatever its value, and is never changed by a later
\* Duration line; every time= line after that line has produced an event.
C15_FirstDurationLineFixes ==
    \A p \in Procs :
        LET k == FirstDuration(stream[p], 1, 0) IN
        /\ call[p].duration = (IF k = 0 THEN 0 ELSE stream[p][k].dur)
        /\ (call[p].callback = "ok" /\ k # 0)
               => Len(events[p]) = TimeLinesAfter(stream[p], k)

\* C15: the duration recorded is that of the first line matching the
\* Duration pattern with a duration above zero (a Duration line of
\* 00:00:00.00 leaves the parser seeking) and is never changed by a later
\* Duration line; no event is produced before that line, and with a callback
\* every time= line after it has produced an event.
C15_FirstPositiveDurationFixes ==
    \A p \in Procs :
        LET k == FirstDuration(stream[p], 1, 1) IN
        /\ call[p].duration = (IF k = 0 THEN 0 ELSE stream[p][k].dur)
        /\ k = 0 => events[p] = <<>>
        /\ (call[p].callback = "ok" /\ k # 0)
               => Len(events[p]) = TimeLinesAfter(stream[p], k)

\* A call with a callback has read  Duration 0, Duration 2, time 1.
C15_Witness ==
    /\ call[1].callback = "ok"
    /\ stream[1] = <<DurLine(0), DurLine(2), TimeLine(1)>>
    /\ events[1] = <<50>>

\* The lines of seq that match one pattern at least.
RECURSIVE Matching(_)
Matching(seq) ==
    IF seq = <<>> THEN <<>>
    ELSE IF Head(seq) = Noise THEN Matching(Tail(seq))
    ELSE <<Head(seq)>> \o Matching(Tail(seq))

\* The duration and the events after the lines of seq, read one by one.
RECURSIVE Replay(_, _, _, _)
Replay(duration, emitted, callback, seq) ==
    IF seq = <<>> THEN [duration |-> duration, emitted |-> emitted]
    ELSE LET r == ParseLine(duration, callback, Head(seq)) IN
         Replay(r.duration, emitted \o r.emitted, callback, Tail(seq))

\* C16: the duration and the events of a call are those of its stream
\* without the lines that match neither pattern, and reading a line that
\* matches neither pattern raises no error.
C16_UnmatchedLinesIgnored ==
    \A p \in Procs :
        /\ LET r == Replay(0, <<>>, call[p].callback, Matching(stream[p])) IN
           /\ call[p].duration = r.duration
           /\ events[p] = r.emitted
        /\ ret[p].error # "UnicodeDecodeError"

\* C17: a call returns only once its engine has exited, and, the engine
\* ending at some time, a call that has started its engine returns at some
\* time.
C17_StartedCallReturns ==
    /\ [](pc[1] = "returned" => proc[1].state = "exited")
    /\ (pc[1] = "reading") ~> (pc[1] = "returned")

\* C18: the step on which a call rejects its input path changes no file,
\* spawns no engine and emits no event.
C18_RejectionHasNoEffect ==
    [][\A p \in Procs :
          (ret[p].error # "InvalidInput" /\ ret'[p].error = "InvalidInput")
          => /\ fs' = fs
             /\ proc' = proc
             /\ proc'[p].state = "none"
             /\ events' = events
             /\ events'[p] = <<>>]_vars

\* A call was rejected for a file that exists outside the input root.
C18_Witness ==
    /\ pc[1] = "raised"
    /\ ret[1].error = "InvalidInput"
    /\ call[1].input_file \in DOMAIN fs
    /\ proc[1].state = "none"

\* C19: the step of a conversion that removes its input file is taken after
\* the stream was closed and the one wait for the exit has returned, and
\* the step on which the call returns leaves no input file, whatever the
\* exit status and whether or not the output file is there.
C19_InputDeletedAfterWait ==
    [][\A p \in Procs :
          /\ (proc[p].state # "none"
                 /\ call[p].input_file \in DOMAIN fs
                 /\ call[p].input_file \notin DOMAIN fs')
             => /\ pc[p] = "cleanup"
                /\ proc[p].state = "exited"
                /\ proc[p].waits = 1
          /\ (pc[p] # "returned" /\ pc'[p] = "returned")
             => call[p].input_file \notin DOMAIN fs']_vars

\* A call returned after an exit with status 1 that left no output file, and
\* its input file is gone.
C19_Witness ==
    /\ pc[1] = "returned"
    /\ proc[1].returncode = 1
    /\ call[1].out_path \notin DOMAIN fs
    /\ call[1].input_file \notin DOMAIN fs
    /\ ndel = 0
=============================================================================
